---- MODULE Spec2Model ----
(***************************************************************************)
(* A model of the causal hospitalization model (src/src/causal_model),    *)
(* its data providers (src/src/data_loader) and the error functions        *)
(* (src/src/utils/error_functions.py).                                     *)
(*                                                                         *)
(* Conventions.                                                            *)
(*  - Dates are day numbers.                                               *)
(*  - hospitalization_p is held as a numerator over PDen (p = v / PDen).   *)
(*  - poisson_lambda, truncnorm_loc and truncnorm_scale are whole levels;  *)
(*    scale level 0 stands for a vanishing positive scale, under which the *)
(*    rounded truncated-normal draw is the location itself.                *)
(*  - A numpy Generator is its seed sequence [worker_id, seed] and the     *)
(*    position reached in its stream; the stream is a fixed function of    *)
(*    the seed sequence and the position.                                  *)
(*  - Arrays are sequences; index k of an array is element k + 1.          *)
(***************************************************************************)
EXTENDS Integers, Sequences, FiniteSets, TLC

VARIABLES
    self,      \* the CausalModel instance: its attributes
    pc,        \* position of the calling thread
    call,      \* the call in progress or last completed, with the instance before it
    ret,       \* what the last completed call returned or raised
    futures,   \* monte_carlo 'parallel': worker_id -> future (pending or result)
    rng,       \* the Generator simulate last built in the calling process
    de,        \* state of differential_evolution during calibrate
    memo       \* an earlier completed call, remembered to compare two runs

vars == <<self, pc, call, ret, futures, rng, de, memo>>

-----------------------------------------------------------------------------
(* Bounds of the model *)

PDen == 2            \* resolution of hospitalization_p
MaxDelay == 2        \* largest Poisson delay the stream yields
MaxLen == 3          \* longest drawn case series
MaxN == 2            \* largest replica count n
DataMaxDate == 6     \* last day of the data sets
MaxDays == 3         \* longest forecast horizon
MaxPassed == 2       \* most arguments one update call passes
PopSize == 3         \* members of the optimizer's population
MaxIter == 2         \* largest maxiter

None == "None"
Pending == <<"pending">>

\* no Generator built yet
NoRng == [worker_id |-> -1, seed |-> -1, pos |-> 0]
NoCall == [op |-> "none"]
NoMemo == [op |-> "none", again |-> FALSE]
NoDe == [phase |-> "none"]

-----------------------------------------------------------------------------
(* Arithmetic helpers *)

Max(a, b) == IF a >= b THEN a ELSE b
Min(a, b) == IF a <= b THEN a ELSE b
Abs(a) == IF a >= 0 THEN a ELSE -a

RECURSIVE SumSeq(_)
SumSeq(s) == IF s = <<>> THEN 0 ELSE Head(s) + SumSeq(Tail(s))

RECURSIVE SeqsOver(_, _)
SeqsOver(S, n) ==
    IF n = 0 THEN {<<>>}
    ELSE LET shorter == SeqsOver(S, n - 1)
         IN  shorter \cup {Append(s, v) : s \in {t \in shorter : Len(t) = n - 1}, v \in S}

-----------------------------------------------------------------------------
(* Results of calls *)

Returned(v) == [ok |-> TRUE, value |-> v]
Raised(e) == [ok |-> FALSE, error |-> e]

-----------------------------------------------------------------------------
(* numpy.random.default_rng, Generator.poisson, scipy.stats.truncnorm.rvs *)

\* a cached generator that is continued when the seed sequence repeats
default_rng_cached(worker_id, seed) ==
    IF rng.worker_id = worker_id /\ rng.seed = seed
    THEN rng
    ELSE [worker_id |-> worker_id, seed |-> seed, pos |-> 0]

default_rng(worker_id, seed) ==
    [worker_id |-> worker_id, seed |-> seed, pos |-> 0]

\* the i-th value of the stream after the generator's position
Raw(g, i) ==
    LET k == g.pos + i
    IN  ((g.worker_id + 1) * 7 + (g.seed + 1) * 5 + k * k * 3
            + k * (g.worker_id + 2 * g.seed + 1)) % 11

\* rng.poisson(lam, size): lam = 0 yields zeros and draws nothing
poisson(g, lam, size) ==
    IF lam = 0
    THEN [draws |-> [i \in 1..size |-> 0], rng |-> g]
    ELSE [draws |-> [i \in 1..size |-> Raw(g, i) % (MaxDelay + 1)],
          rng   |-> [g EXCEPT !.pos = @ + size]]

\* np.round(truncnorm.rvs(a, b, loc, scale, size, random_state=rng)) with
\* a = (0 - loc) / scale, b = inf: draws are never below 0
truncnorm_rvs_round(g, loc, scale, size) ==
    [draws |-> [i \in 1..size |->
                    IF scale = 0 THEN loc
                    ELSE Max(0, loc + (((Raw(g, i) \div 3) % 3) - 1) * scale)],
     rng   |-> [g EXCEPT !.pos = @ + size]]

-----------------------------------------------------------------------------
(* CausalModel.params, CausalModel.simulate *)

params(m) ==
    <<m.hospitalization_p, m.poisson_lambda, m.truncnorm_loc, m.truncnorm_scale>>

\* the setter without its last assignment
set_params_without_scale(m, value) ==
    [m EXCEPT !.hospitalization_p = value[1], !.poisson_lambda = value[2],
              !.truncnorm_loc = value[3]]

set_params(m, value) ==
    [m EXCEPT !.hospitalization_p = value[1],
              !.poisson_lambda = value[2],
              !.truncnorm_loc = value[3],
              !.truncnorm_scale = value[4]]

\* every case admitted, whatever hospitalization_p is
hospitalizations_all(m) == [t \in 1..Len(m.cases) |-> m.cases[t]]

\* int(np.floor(x * self.hospitalization_p)) for every x of self.cases
hospitalizations(m) ==
    [t \in 1..Len(m.cases) |-> (m.cases[t] * m.hospitalization_p) \div PDen]

\* the slice taken with its end included
AddStayInclusive(occupancy, begin_stay, end_stay) ==
    [k \in 1..Len(occupancy) |->
        IF begin_stay <= k - 1 /\ k - 1 <= end_stay
        THEN occupancy[k] + 1 ELSE occupancy[k]]

\* occupancy[begin_stay:end_stay] += 1 (a slice is cut at the array's end)
AddStay(occupancy, begin_stay, end_stay) ==
    [k \in 1..Len(occupancy) |->
        IF begin_stay <= k - 1 /\ k - 1 < end_stay
        THEN occupancy[k] + 1 ELSE occupancy[k]]

\* for i in range(hospitalizations[t]), from i on
RECURSIVE StayLoop(_, _, _, _, _, _, _)
StayLoop(occupancy, t, i, h, pos, delays, stays) ==
    IF i >= h[t + 1] THEN occupancy
    ELSE LET begin_stay == t + delays[pos + i + 1]
             end_stay == begin_stay + stays[pos + i + 1] + 1
         IN  StayLoop(AddStay(occupancy, begin_stay, end_stay),
                      t, i + 1, h, pos, delays, stays)

\* the admissions of day t only, the later days left out
DayLoop_one_day(occupancy, t, h, pos, delays, stays) ==
    IF t >= Len(h) THEN occupancy
    ELSE StayLoop(occupancy, t, 0, h, pos, delays, stays)

\* for t in range(n), from t on
RECURSIVE DayLoop(_, _, _, _, _, _)
DayLoop(occupancy, t, h, pos, delays, stays) ==
    IF t >= Len(h) THEN occupancy
    ELSE DayLoop(StayLoop(occupancy, t, 0, h, pos, delays, stays),
                 t + 1, h, pos + h[t + 1], delays, stays)

\* the reads of the inner loop from i on: <<t, pos + i>> for each admission
RECURSIVE StayReads(_, _, _, _)
StayReads(t, i, h, pos) ==
    IF i >= h[t + 1] THEN <<>>
    ELSE <<<<t, pos + i>>>> \o StayReads(t, i + 1, h, pos)

\* pos left where it is after a day
RECURSIVE DayReads_pos_kept(_, _, _)
DayReads_pos_kept(t, h, pos) ==
    IF t >= Len(h) THEN <<>>
    ELSE StayReads(t, 0, h, pos) \o DayReads_pos_kept(t + 1, h, pos)

\* the reads of delays[pos+i] and stays[pos+i] the loops make from day t on,
\* in the order they are made; pos += hospitalizations[t] after each day
RECURSIVE DayReads(_, _, _)
DayReads(t, h, pos) ==
    IF t >= Len(h) THEN <<>>
    ELSE StayReads(t, 0, h, pos) \o DayReads(t + 1, h, pos + h[t + 1])

\* the slice begun one day late
DropBufferLate(occupancy, buffer) == SubSeq(occupancy, buffer + 2, Len(occupancy))

\* occupancy[self._buffer:]
DropBuffer(occupancy, buffer) == SubSeq(occupancy, buffer + 1, Len(occupancy))

\* simulate on instance m with the generator g it has built:
\* the returned array and the generator as the call leaves it
simulate_with(m, g) ==
    LET n == Len(m.cases)
        h == hospitalizations(m)
        d == poisson(g, params(m)[2], SumSeq(h))
        s == truncnorm_rvs_round(d.rng, m.truncnorm_loc, m.truncnorm_scale, SumSeq(h))
        occupancy == DayLoop([k \in 1..n |-> 0], 0, h, 0, d.draws, s.draws)
    IN  [out |-> DropBuffer(occupancy, m._buffer), rng |-> s.rng]

simulate(m, worker_id) == simulate_with(m, default_rng(worker_id, m.simulation_seed))

-----------------------------------------------------------------------------
(* CausalModel.monte_carlo *)

\* total / n rounded with an exact half going up
around_mean_half_up(total, n) == (2 * total + n) \div (2 * n)

\* np.around(total / n): to the nearest integer, an exact half to the even one
around_mean(total, n) ==
    LET q == total \div n
        r == total % n
    IN  IF 2 * r < n THEN q
        ELSE IF 2 * r > n THEN q + 1
        ELSE IF q % 2 = 0 THEN q ELSE q + 1

\* worker ids counted from one
worker_ids_from_one(n) == [i \in 1..n |-> i]

\* range(n), in submission order
worker_ids(n) == [i \in 1..n |-> i - 1]

\* np.around(np.mean(np.array(simulations), axis=0)).astype(int)
mean_around(simulations) ==
    LET n == Len(simulations)
    IN  [k \in 1..Len(simulations[1]) |->
            around_mean(SumSeq([i \in 1..n |-> simulations[i][k]]), n)]

\* every replica after the first continues the stream the one before it left
monte_carlo_sequential_shared_rng(m, n) ==
    LET ids == worker_ids(n)
        RECURSIVE run(_)
        run(i) == IF i = 1 THEN simulate(m, ids[1])
                  ELSE simulate_with(m, [run(i - 1).rng EXCEPT !.worker_id = ids[i]])
    IN  [out |-> mean_around([i \in 1..n |-> run(i).out]), rng |-> run(n).rng]

\* method == 'sequential': the replicas in order, and the last generator built
monte_carlo_sequential(m, n) ==
    LET ids == worker_ids(n)
    IN  [out |-> mean_around([i \in 1..n |-> simulate(m, ids[i]).out]),
         rng |-> simulate(m, ids[n]).rng]

-----------------------------------------------------------------------------
(* The data sets: data/age_groups.csv and data/hospitalization.csv.        *)
(* Both hold one row per day, from day 0 to day DataMaxDate.               *)

DataStates == {"Wien", "Tirol"}
DataAgeGroups == {"<5", ">84"}
DataDates == 0..DataMaxDate

\* new cases of one day, state and age group
NewCases(state, age_group, date) ==
    IF state = "Wien"
    THEN IF age_group = "<5" THEN (date * 2) % 3 ELSE (date + 1) % 2
    ELSE IF age_group = "<5" THEN date % 2 ELSE 2 * ((date + 1) % 2)

\* column Anzahl: the cases counted up to and including the day
RECURSIVE Anzahl(_, _, _)
Anzahl(state, age_group, date) ==
    IF date = 0 THEN NewCases(state, age_group, 0)
    ELSE Anzahl(state, age_group, date - 1) + NewCases(state, age_group, date)

IntensivBettenBelCovid19(state, date) ==
    IF state = "Wien" THEN 1 + (date % 2) ELSE (date + 1) % 3

NormalBettenBelCovid19(state, date) ==
    IF state = "Wien" THEN 2 + (date % 3) ELSE 1 + ((date + 1) % 2)

\* the dates of a set in ascending order
RECURSIVE SortedDates(_)
SortedDates(D) ==
    IF D = {} THEN <<>>
    ELSE LET d == CHOOSE x \in D : \A y \in D : x <= y
         IN  <<d>> \o SortedDates(D \ {d})

RECURSIVE SumOver(_, _, _, _)
SumOver(state, groups, date, done) ==
    IF groups = {} THEN done
    ELSE LET g == CHOOSE x \in groups : TRUE
         IN  SumOver(state, groups \ {g}, date, done + Anzahl(state, g, date))

-----------------------------------------------------------------------------
(* CaseData.get_array, OccupancyData.get_array *)

\* the rows left after the state and age group filters, summed per day
CaseRows(state, age_groups) ==
    IF state \in DataStates /\ age_groups \cap DataAgeGroups /= {}
    THEN DataDates ELSE {}

\* data["Anzahl"].diff() has no value in the first row: it has no predecessor
DiffIsNaN(state, age_groups, date) ==
    \A d \in CaseRows(state, age_groups) : date <= d

\* data["Anzahl"].diff() in a later row
AnzahlDiff(state, age_groups, date) ==
    LET groups == age_groups \cap DataAgeGroups
    IN  SumOver(state, groups, date, 0) - SumOver(state, groups, date - 1, 0)

\* the rows of the window, the buffer days before from_date included
CaseData_get_array(from_date, to_date, state, age_groups, buffer) ==
    LET start_date == from_date - buffer
        dates == SortedDates({d \in CaseRows(state, age_groups) :
                                start_date <= d /\ d <= to_date})
    IN  IF \E k \in 1..Len(dates) : DiffIsNaN(state, age_groups, dates[k])
        THEN Raised("ValueError")        \* astype int of a missing value
        ELSE Returned([k \in 1..Len(dates) |-> AnzahlDiff(state, age_groups, dates[k])])

OccupancyData_get_array(from_date, to_date, state, type) ==
    IF type \notin {"ICU", "normal"}
    THEN Raised("ValueError")
    ELSE LET dates == SortedDates({d \in (IF state \in DataStates THEN DataDates ELSE {}) :
                                     from_date <= d /\ d <= to_date})
         IN  Returned([k \in 1..Len(dates) |->
                        IF type = "ICU"
                        THEN IntensivBettenBelCovid19(state, dates[k])
                        ELSE NormalBettenBelCovid19(state, dates[k])])

-----------------------------------------------------------------------------
(* CausalModel.update, CausalModel.__init__ *)

\* an optional argument: {} when omitted (None), {v} when v is passed
Omitted == {}
Passed(v) == {v}
Given(arg, old) == IF arg = Omitted THEN old ELSE CHOOSE v \in arg : TRUE

NoArgs ==
    [state |-> Omitted, bed_type |-> Omitted, age_groups |-> Omitted,
     from_date |-> Omitted, to_date |-> Omitted, buffer |-> Omitted]

\* lines 141-152: the passed fields are assigned
set_window(m, args) ==
    [m EXCEPT !._state = Given(args.state, @),
              !._bed_type = Given(args.bed_type, @),
              !._age_groups = Given(args.age_groups, @),
              !._from_date = Given(args.from_date, @),
              !._to_date = Given(args.to_date, @),
              !._buffer = Given(args.buffer, @)]

occupancy_of(m) ==
    OccupancyData_get_array(m._from_date, m._to_date, m._state, m._bed_type)

cases_of(m) ==
    CaseData_get_array(m._from_date, m._to_date, m._state, m._age_groups, m._buffer)

\* the case series fetched without the buffer argument
update_without_buffer(m, args) ==
    LET m1 == set_window(m, args)
        o == occupancy_of(m1)
        c == CaseData_get_array(m1._from_date, m1._to_date, m1._state, m1._age_groups, 0)
    IN  IF ~o.ok THEN [m |-> m1, ret |-> o]
        ELSE IF ~c.ok THEN [m |-> [m1 EXCEPT !.occupancy = o.value], ret |-> c]
        ELSE [m |-> [m1 EXCEPT !.occupancy = o.value, !.cases = c.value],
              ret |-> Returned(None)]

\* update: the instance as the call leaves it, and whether it raised
update(m, args) ==
    LET m1 == set_window(m, args)
        o == occupancy_of(m1)
        m2 == IF o.ok THEN [m1 EXCEPT !.occupancy = o.value] ELSE m1
        c == cases_of(m2)
        m3 == IF c.ok THEN [m2 EXCEPT !.cases = c.value] ELSE m2
    IN  IF ~o.ok THEN [m |-> m1, ret |-> o]
        ELSE IF ~c.ok THEN [m |-> m2, ret |-> c]
        ELSE [m |-> m3, ret |-> Returned(None)]

\* __init__: the attributes are set, then update() fills the caches
init(value, state, bed_type, age_groups, from_date, to_date, buffer, simulation_seed, calibration_seed) ==
    update([hospitalization_p |-> value[1], poisson_lambda |-> value[2],
            truncnorm_loc |-> value[3], truncnorm_scale |-> value[4],
            simulation_seed |-> simulation_seed, calibration_seed |-> calibration_seed,
            _state |-> state, _bed_type |-> bed_type, _age_groups |-> age_groups,
            _from_date |-> from_date, _to_date |-> to_date, _buffer |-> buffer,
            occupancy |-> <<>>, cases |-> <<>>],
           NoArgs)

-----------------------------------------------------------------------------
(* utils.error_functions.mape, CausalModel._get_mape *)

RECURSIVE GCD(_, _)
GCD(a, b) == IF b = 0 THEN a ELSE GCD(b, a % b)

RECURSIVE Product(_)
Product(s) == IF s = <<>> THEN 1 ELSE Head(s) * Product(Tail(s))

\* a float: a fraction in lowest terms, inf or nan
Frac(num, den) ==
    LET g == GCD(num, den)
    IN  [kind |-> "num", num |-> num \div g, den |-> den \div g]
Inf == [kind |-> "inf", num |-> 0, den |-> 1]
NotANumber == [kind |-> "nan", num |-> 0, den |-> 1]

\* a < b on floats: false whenever either is nan
Less(a, b) ==
    /\ a.kind /= "nan" /\ b.kind /= "nan"
    /\ a.kind = "num"
    /\ (b.kind = "inf" \/ a.num * b.den < b.num * a.den)

LessEq(a, b) ==
    /\ a.kind /= "nan" /\ b.kind /= "nan"
    /\ (b.kind = "inf" \/ (a.kind = "num" /\ a.num * b.den <= b.num * a.den))

\* np.mean(np.abs(actual - pred) / actual) * 100, for arrays of one length
mape(actual, pred) ==
    LET n == Len(actual)
        zeros == {k \in 1..n : actual[k] = 0}
        rest == [k \in 1..n |-> IF actual[k] = 0 THEN 1 ELSE actual[k]]
        all == Product(rest)
    IN  IF n = 0 \/ \E k \in zeros : pred[k] = 0 THEN NotANumber      \* 0 / 0
        ELSE IF zeros /= {} THEN Inf                                  \* x / 0
        ELSE Frac(100 * SumSeq([k \in 1..n |->
                                    Abs(actual[k] - pred[k]) * (all \div actual[k])]),
                  n * all)

\* the error of the parameters the instance holds, the candidate ignored
get_mape_live(m, value, n) ==
    [m |-> m, fun |-> mape(m.occupancy, monte_carlo_sequential(m, n).out)]

\* _get_mape on instance m: the instance as the call leaves it, and the error
get_mape(m, value, n) ==
    LET m1 == set_params(m, value)
    IN  [m |-> m1, fun |-> mape(m1.occupancy, monte_carlo_sequential(m1, n).out)]

-----------------------------------------------------------------------------
(* scipy.optimize.differential_evolution, as calibrate calls it:            *)
(* init='sobol', strategy='randtobest1bin', updating='deferred',            *)
(* workers=-1, polish (the default), seed=self.calibration_seed.            *)
(* Candidates are points of the parameter grid; what the optimizer draws    *)
(* is a fixed function of the seed, the generation and the member.          *)

Mix(a, b, c, d) == (a * 31 + b * 17 + c * 7 + d * 3 + a * b + b * c + c * d + 5) % 13

Members == 1..PopSize

InBounds(x, bounds) == \A j \in 1..4 : bounds[j][1] <= x[j] /\ x[j] <= bounds[j][2]

\* a draw inside the bounds of component j
Within(bounds, j, draw) == bounds[j][1] + (draw % (bounds[j][2] - bounds[j][1] + 1))

\* the initial population; x0, when given, takes the place of the first member
init_population(bounds, seed, x0) ==
    [i \in Members |->
        IF i = 1 /\ x0 /= Omitted THEN CHOOSE x \in x0 : TRUE
        ELSE [j \in 1..4 |-> Within(bounds, j, Mix(seed, 0, i, j))]]

\* the trial of member i in generation nit: rand-to-best/1, binomial crossover,
\* and a component out of bounds drawn again inside them
trial(population, bounds, seed, nit, i) ==
    LET r0 == 1 + (Mix(seed, nit, i, 5) % PopSize)
        r1 == 1 + (Mix(seed, nit, i, 6) % PopSize)
        r2 == 1 + (Mix(seed, nit, i, 7) % PopSize)
        fill == 1 + (Mix(seed, nit, i, 8) % 4)
        bprime == [j \in 1..4 |->
                    population[r0][j] + (population[1][j] - population[r0][j])
                        + (population[r1][j] - population[r2][j])]
        crossed == [j \in 1..4 |->
                    IF j = fill \/ Mix(seed, nit, i, 8 + j) % 2 = 0
                    THEN bprime[j] ELSE population[i][j]]
    IN  [j \in 1..4 |->
            IF bounds[j][1] <= crossed[j] /\ crossed[j] <= bounds[j][2]
            THEN crossed[j]
            ELSE Within(bounds, j, Mix(seed, nit, i, 12 + j))]

\* np.argmin: the first nan if there is one, else the first least energy
argmin(energies) ==
    IF \E i \in DOMAIN energies : energies[i].kind = "nan"
    THEN CHOOSE i \in DOMAIN energies :
            /\ energies[i].kind = "nan"
            /\ \A k \in 1..(i - 1) : energies[k].kind /= "nan"
    ELSE CHOOSE i \in DOMAIN energies :
            /\ \A k \in DOMAIN energies : ~Less(energies[k], energies[i])
            /\ \A k \in 1..(i - 1) : Less(energies[i], energies[k])

Swap(s, i) == [s EXCEPT ![1] = s[i], ![i] = s[1]]

\* the member of least energy is moved to the front
promote_lowest_energy(d) ==
    LET l == argmin(d.energies)
    IN  [d EXCEPT !.population = Swap(@, l), !.energies = Swap(@, l)]

\* deferred updating: after the whole generation is evaluated, every trial
\* that is no worse than its member replaces it
accept_trials(d, energies) ==
    [d EXCEPT !.population = [i \in Members |->
                    IF LessEq(energies[i], d.energies[i]) THEN d.trials[i] ELSE @[i]],
              !.energies = [i \in Members |->
                    IF LessEq(energies[i], d.energies[i]) THEN energies[i] ELSE @[i]]]

\* the population has converged: no energy is infinite and they do not spread
converged(d) ==
    /\ \A i \in Members : d.energies[i].kind = "num"
    /\ \A i \in Members : d.energies[i] = d.energies[1]

\* the candidates the pool is evaluating
candidates(d) == IF d.nit = 0 THEN d.population ELSE d.trials

AllPending == [i \in Members |-> Pending]

\* the results of one parallel evaluation are in: the next state of the solver
gathered(d, seed) ==
    LET energies == [i \in Members |-> d.results[i][2]]
        d1 == promote_lowest_energy(
                IF d.nit = 0 THEN [d EXCEPT !.energies = energies]
                ELSE accept_trials(d, energies))
        stop == (d.nit > 0 /\ converged(d1)) \/ d.nit >= d.maxiter
    IN  IF stop
        THEN [d1 EXCEPT !.phase = "polish", !.results = AllPending,
                        !.success = d.nit > 0 /\ converged(d1)]
        ELSE [d1 EXCEPT !.nit = @ + 1, !.results = AllPending,
                        !.trials = [i \in Members |->
                            trial(d1.population, d.bounds, seed, d.nit + 1, i)]]

\* the OptimizeResult
optimize_result(d) ==
    [x |-> d.population[1], fun |-> d.energies[1], nit |-> d.nit, success |-> d.success]

-----------------------------------------------------------------------------
(* CausalModel.predict *)

\* simulation[-days:]
LastDays(simulation, days) ==
    IF days = 0 THEN simulation
    ELSE SubSeq(simulation, Max(1, Len(simulation) - days + 1), Len(simulation))

ToDate(date) == [NoArgs EXCEPT !.to_date = Passed(date)]

\* the last days returned with the window left extended
predict_finish_unrestored(m, to_date, days, simulation) ==
    [m |-> m, ret |-> Returned(LastDays(simulation, days))]

\* lines 302-303, once monte_carlo has returned simulation on instance m
predict_finish(m, to_date, days, simulation) ==
    LET u == update(m, ToDate(to_date))
    IN  [m |-> u.m,
         ret |-> IF u.ret.ok THEN Returned(LastDays(simulation, days)) ELSE u.ret]

-----------------------------------------------------------------------------
(* The calls of the simulation engine, on an instance whose cached case     *)
(* series is any series the case data provider can deliver.                 *)

CaseValues == {0, 2}
Seeds == {0, 1}
\* [hospitalization_p, poisson_lambda, truncnorm_loc, truncnorm_scale]
ParamValues ==
    {<<p, lam, ls[1], ls[2]>> : p \in 0..PDen, lam \in {0, 1}, ls \in {<<3, 0>>, <<1, 1>>}}

\* the series of the concrete scenario: ten cases on the first of seven days
ScenarioCases == <<10, 0, 0, 0, 0, 0, 0>>

CaseSeries == SeqsOver(CaseValues, MaxLen) \cup {ScenarioCases}

SimInstance(cases, buffer, value, seed) ==
    [hospitalization_p |-> value[1], poisson_lambda |-> value[2],
     truncnorm_loc |-> value[3], truncnorm_scale |-> value[4],
     simulation_seed |-> seed, calibration_seed |-> 0,
     _state |-> "Wien", _bed_type |-> "ICU", _age_groups |-> {"<5"},
     _from_date |-> buffer + 1, _to_date |-> Len(cases), _buffer |-> buffer,
     occupancy |-> [k \in 1..(Len(cases) - buffer) |-> 1],
     cases |-> cases]

SimInit ==
    /\ \E cases \in CaseSeries, value \in ParamValues, seed \in Seeds :
         \E buffer \in IF cases = ScenarioCases THEN {0} ELSE 0..Len(cases) :
            self = SimInstance(cases, buffer, value, seed)
    /\ pc = "idle"
    /\ call = NoCall
    /\ ret = Returned(<<>>)
    /\ futures = <<>>
    /\ rng = NoRng
    /\ de = NoDe
    /\ memo = NoMemo

\* the remembered call is no longer the last one
Between(mo) == IF mo = NoMemo THEN mo ELSE [mo EXCEPT !.between = TRUE]

\* model.simulate(worker_id)
Simulate(worker_id) ==
    /\ pc = "idle"
    /\ LET r == simulate(self, worker_id)
           this == [op |-> "simulate", pre |-> self, worker_id |-> worker_id]
       IN  /\ ret' = Returned(r.out)
           /\ rng' = r.rng
           /\ call' = this
           /\ memo' = IF memo = NoMemo
                      THEN this @@ [out |-> r.out, between |-> FALSE]
                      ELSE Between(memo)
    /\ UNCHANGED <<self, pc, futures, de>>

\* model.monte_carlo(n, 'sequential')
MonteCarloSequential(n) ==
    /\ pc = "idle"
    /\ LET r == monte_carlo_sequential(self, n)
       IN  /\ ret' = Returned(r.out)
           /\ rng' = r.rng
    /\ call' = [op |-> "monte_carlo", pre |-> self, n |-> n, method |-> "sequential"]
    /\ memo' = Between(memo)
    /\ UNCHANGED <<self, pc, futures, de>>

\* model.monte_carlo(n, 'parallel'): every replica is submitted to the pool
MonteCarloSubmit(n) ==
    /\ pc = "idle"
    /\ pc' = "mc_wait"
    /\ call' = [op |-> "monte_carlo", pre |-> self, n |-> n, method |-> "parallel"]
    /\ futures' = [i \in 1..n |-> Pending]
    /\ UNCHANGED <<self, ret, rng, de, memo>>

\* a submitted call runs only after every call submitted before it is done
runnable_in_turn(i) ==
    /\ pc = "mc_wait"
    /\ i \in DOMAIN futures
    /\ futures[i] = Pending
    /\ \A j \in 1..(i - 1) : futures[j] /= Pending

\* a submitted call that has not run yet can be taken up by a pool process
runnable(i) ==
    /\ pc = "mc_wait"
    /\ i \in DOMAIN futures
    /\ futures[i] = Pending

\* every pool process simulates with worker id 0
WorkerSimulate_same_id(i) ==
    /\ runnable(i)
    /\ futures' = [futures EXCEPT ![i] = <<"done", simulate(self, 0).out>>]
    /\ UNCHANGED <<self, pc, call, ret, rng, de, memo>>

\* a pool process runs self.simulate(worker_id) on its copy of the instance
WorkerSimulate(i) ==
    /\ runnable(i)
    /\ futures' = [futures EXCEPT ![i] = <<"done", simulate(self, worker_ids(Len(futures))[i]).out>>]
    /\ UNCHANGED <<self, pc, call, ret, rng, de, memo>>

AllDone == \A i \in DOMAIN futures : futures[i] /= Pending

\* [future.result() for future in futures], then the mean
MonteCarloJoin ==
    /\ pc = "mc_wait"
    /\ call.op = "monte_carlo"
    /\ AllDone
    /\ ret' = Returned(mean_around([i \in DOMAIN futures |-> futures[i][2]]))
    /\ pc' = "idle"
    /\ futures' = <<>>
    /\ memo' = Between(memo)
    /\ UNCHANGED <<self, call, rng, de>>

SimNext ==
    \/ \E worker_id \in 0..(MaxN - 1) : Simulate(worker_id)
    \/ \E n \in 1..MaxN : MonteCarloSequential(n)
    \/ \E n \in 1..MaxN : MonteCarloSubmit(n)
    \/ \E i \in 1..MaxN : WorkerSimulate(i)
    \/ MonteCarloJoin

SimSpec == SimInit /\ [][SimNext]_vars

-----------------------------------------------------------------------------
(* The calls on an instance built over the data sets: update and predict.  *)

States == DataStates
BedTypes == {"ICU", "normal"}
AgeGroupSets == {{"<5"}, {"<5", ">84"}}
FromDates == {2, 5}
ToDates == {5, 6}
Buffers == {1, 2}
Methods == {"sequential", "parallel", "threads"}

Optional(S) == {Omitted} \cup {Passed(v) : v \in S}

NumPassed(args) ==
    Cardinality({f \in DOMAIN args : args[f] /= Omitted})

UpdateArgs ==
    {args \in [state : Optional(States), bed_type : Optional(BedTypes),
               age_groups : Optional(AgeGroupSets), from_date : Optional(FromDates),
               to_date : Optional(ToDates), buffer : Optional(Buffers)] :
        NumPassed(args) <= MaxPassed}

Init ==
    /\ \E state \in States, bed_type \in BedTypes, age_groups \in AgeGroupSets,
          from_date \in FromDates, to_date \in ToDates, buffer \in Buffers :
         LET made == init(<<PDen, 1, 1, 1>>, state, bed_type, age_groups,
                          from_date, to_date, buffer, 0, 0)
         IN  made.ret.ok /\ self = made.m
    /\ pc = "idle"
    /\ call = NoCall
    /\ ret = Returned(None)
    /\ futures = <<>>
    /\ rng = NoRng
    /\ de = NoDe
    /\ memo = NoMemo

\* model.update(...)
Update(args) ==
    /\ pc = "idle"
    /\ LET u == update(self, args)
       IN  self' = u.m /\ ret' = u.ret
    /\ call' = [op |-> "update", pre |-> self, args |-> args]
    /\ pc' = "returned"
    /\ UNCHANGED <<futures, rng, de, memo>>

\* the calls explored stay within MaxDays of the end of the data
InReach(days) == self._to_date + days <= DataMaxDate + MaxDays

PredictCall(days, n, method) ==
    [op |-> "predict", pre |-> self, days |-> days, n |-> n, method |-> method]

\* model.predict(days, n, 'sequential')
PredictSequential(days, n) ==
    /\ pc = "idle"
    /\ InReach(days)
    /\ call' = PredictCall(days, n, "sequential")
    /\ LET u == update(self, ToDate(self._to_date + days))
           r == monte_carlo_sequential(u.m, n)
           f == predict_finish(u.m, self._to_date, days, r.out)
       IN  IF u.ret.ok
           THEN self' = f.m /\ ret' = f.ret /\ rng' = r.rng
           ELSE self' = u.m /\ ret' = u.ret /\ rng' = rng
    /\ pc' = "returned"
    /\ UNCHANGED <<futures, de, memo>>

\* model.predict(days, n, method) with a method monte_carlo does not know
PredictInvalidMethod(days, n, method) ==
    /\ pc = "idle"
    /\ InReach(days)
    /\ method \notin {"sequential", "parallel"}
    /\ call' = PredictCall(days, n, method)
    /\ LET u == update(self, ToDate(self._to_date + days))
       IN  /\ self' = u.m
           /\ ret' = IF u.ret.ok THEN Raised("ValueError") ELSE u.ret
    /\ pc' = "returned"
    /\ UNCHANGED <<futures, rng, de, memo>>

\* model.predict(days, n, 'parallel'), up to the submission of the replicas
PredictSubmit(days, n) ==
    /\ pc = "idle"
    /\ InReach(days)
    /\ call' = PredictCall(days, n, "parallel")
    /\ LET u == update(self, ToDate(self._to_date + days))
       IN  /\ self' = u.m
           /\ IF u.ret.ok
              THEN pc' = "mc_wait" /\ futures' = [i \in 1..n |-> Pending] /\ ret' = ret
              ELSE pc' = "returned" /\ futures' = futures /\ ret' = u.ret
    /\ UNCHANGED <<rng, de, memo>>

\* the replicas have delivered: the mean, the window restored, the last days
PredictJoin ==
    /\ pc = "mc_wait"
    /\ call.op = "predict"
    /\ AllDone
    /\ LET simulation == mean_around([i \in DOMAIN futures |-> futures[i][2]])
           f == predict_finish(self, call.pre._to_date, call.days, simulation)
       IN  self' = f.m /\ ret' = f.ret
    /\ pc' = "returned"
    /\ futures' = <<>>
    /\ UNCHANGED <<call, rng, de, memo>>

\* the caller takes the result or the exception; the locals of the call,
\* the Generator among them, are gone
Return ==
    /\ pc = "returned"
    /\ pc' = "idle"
    /\ call' = NoCall
    /\ ret' = Returned(None)
    /\ rng' = NoRng
    /\ UNCHANGED <<self, futures, de, memo>>

Next ==
    \/ \E args \in UpdateArgs : Update(args)
    \/ \E days \in 1..MaxDays, n \in 1..MaxN : PredictSequential(days, n)
    \/ \E days \in 1..MaxDays, n \in 1..MaxN, method \in Methods :
            PredictInvalidMethod(days, n, method)
    \/ \E days \in 1..MaxDays, n \in 1..MaxN : PredictSubmit(days, n)
    \/ \E i \in 1..MaxN : WorkerSimulate(i)
    \/ PredictJoin
    \/ Return

Spec == Init /\ [][Next]_vars

-----------------------------------------------------------------------------
(* Configuration with values the data sets do not know: a region without    *)
(* rows, a bed type that is neither 'ICU' nor 'normal'.                     *)

CfgStates == DataStates \cup {"Atlantis"}
CfgBedTypes == BedTypes \cup {"PICU"}

CfgArgs ==
    {args \in [state : Optional(CfgStates), bed_type : Optional(CfgBedTypes),
               age_groups : Optional(AgeGroupSets), from_date : {Omitted},
               to_date : {Omitted}, buffer : Optional(Buffers)] :
        NumPassed(args) <= MaxPassed}

\* CausalModel(..., state, bed_type, ...): a new instance over the same
\* window; a constructor that raises leaves no instance behind
Construct(state, bed_type) ==
    /\ pc = "idle"
    /\ LET made == init(params(self), state, bed_type, self._age_groups,
                        self._from_date, self._to_date, self._buffer,
                        self.simulation_seed, self.calibration_seed)
       IN  /\ self' = IF made.ret.ok THEN made.m ELSE self
           /\ ret' = made.ret
    /\ call' = [op |-> "init", pre |-> self, state |-> state, bed_type |-> bed_type]
    /\ pc' = "returned"
    /\ UNCHANGED <<futures, rng, de, memo>>

CfgNext ==
    \/ \E args \in CfgArgs : Update(args)
    \/ \E state \in CfgStates, bed_type \in CfgBedTypes : Construct(state, bed_type)
    \/ Return

CfgSpec == Init /\ [][CfgNext]_vars

-----------------------------------------------------------------------------
(* CausalModel.calibrate: the optimizer evaluates its population in pool    *)
(* processes, each on its own copy of the instance, then polishes the best  *)
(* member in the calling process, on the instance itself.                   *)

\* bounds: one (lower, upper) pair for every parameter
BoundsSet ==
    {<<(<<0, PDen>>), (<<0, 1>>), (<<1, 3>>), (<<0, 1>>)>>,
     <<(<<1, PDen>>), (<<0, 1>>), (<<1, 2>>), (<<0, 1>>)>>}

\* the live parameters an instance is built with
CalStarts == {<<PDen, 1, 1, 1>>, <<1, 0, 3, 0>>, <<0, 0, 1, 1>>}

CalInit ==
    /\ \E state \in States, value \in CalStarts, calibration_seed \in Seeds :
         LET made == init(value, state, "ICU", DataAgeGroups, 2, 5, 1, 0, calibration_seed)
         IN  made.ret.ok /\ self = made.m
    /\ pc = "idle"
    /\ call = NoCall
    /\ ret = Returned(None)
    /\ futures = <<>>
    /\ rng = NoRng
    /\ de = NoDe
    /\ memo = NoMemo

\* x0 is the live parameter vector
x0_always(m, use_x0) == Passed(params(m))

\* if use_x0: x0 = self.params, else: x0 = None
x0_of(m, use_x0) == IF use_x0 THEN Passed(params(m)) ELSE Omitted

\* self.params = result.x, with location and scale exchanged
store_exchanged(m, result) ==
    set_params(m, <<result.x[1], result.x[2], result.x[4], result.x[3]>>)

\* self.params = result.x
store_result(m, result) == set_params(m, result.x)

\* the method _get_mape falls back on when none is passed
objective_method_default == "parallel"

\* args=(n, 'sequential'): the method every objective evaluation is given
objective_method == "sequential"

\* the worker pools monte_carlo(n, method) creates: with ProcessPoolExecutor()
monte_carlo_pools(method) == IF method = "parallel" THEN 1 ELSE 0

\* the solver as differential_evolution sets it up
solver(bounds, maxiter, seed, x0) ==
    LET population == init_population(bounds, seed, x0)
    IN  [phase |-> "evolve", bounds |-> bounds, maxiter |-> maxiter, nit |-> 0,
         population |-> population, trials |-> population,
         energies |-> [i \in Members |-> Inf], results |-> AllPending,
         success |-> FALSE, nested |-> 0]

\* model.calibrate(n, bounds, maxiter, use_x0), up to the first evaluation of
\* the population; an x0 outside the bounds is refused by the optimizer
CalibrateBegin(n, bounds, maxiter, use_x0) ==
    /\ pc = "idle"
    /\ ~memo.again
    /\ call' = [op |-> "calibrate", pre |-> self, n |-> n, bounds |-> bounds,
                maxiter |-> maxiter, use_x0 |-> use_x0]
    /\ LET x0 == x0_of(self, use_x0)
       IN  IF x0 /= Omitted /\ \E x \in x0 : ~InBounds(x, bounds)
           THEN /\ pc' = "returned"
                /\ ret' = Raised("ValueError")
                /\ UNCHANGED <<de, memo>>
           ELSE /\ pc' = "de_wait"
                /\ de' = solver(bounds, maxiter, self.calibration_seed, x0)
                /\ memo' = IF memo = NoMemo THEN memo ELSE [memo EXCEPT !.again = TRUE]
                /\ ret' = ret
    /\ UNCHANGED <<self, futures, rng>>

\* a pool process runs self._get_mape(candidate, n, 'sequential') on its copy
\* of the instance: the error, and the parameters the copy holds afterwards
\* (de.nested counts the pools the evaluations have created themselves)
DeWorker(i) ==
    /\ pc = "de_wait"
    /\ de.results[i] = Pending
    /\ LET r == get_mape(self, candidates(de)[i], call.n)
       IN  de' = [de EXCEPT !.results[i] = <<"done", r.fun, params(r.m)>>,
                            !.nested = @ + monte_carlo_pools(objective_method)]
    /\ UNCHANGED <<self, pc, call, ret, futures, rng, memo>>

\* the energies of the generation are in: selection, then the next
\* generation or the end of the evolution
DeGather ==
    /\ pc = "de_wait"
    /\ \A i \in Members : de.results[i] /= Pending
    /\ de' = gathered(de, self.calibration_seed)
    /\ pc' = IF de'.phase = "polish" THEN "de_polish" ELSE "de_wait"
    /\ UNCHANGED <<self, call, ret, futures, rng, memo>>

\* polish: self._get_mape is evaluated around the best member, in the
\* calling process on the instance itself or, depending on the version of the
\* library, through the pool on a copy; the error is flat there, so the best
\* member stays, unless the value found is lower
DePolish ==
    /\ pc = "de_polish"
    /\ \E in_caller \in BOOLEAN :
         LET r == get_mape(self, de.population[1], call.n)
         IN  /\ self' = IF in_caller THEN r.m ELSE self
             /\ de' = [de EXCEPT !.phase = "done",
                                 !.energies[1] = IF Less(r.fun, @) THEN r.fun ELSE @,
                                 !.nested = @ + monte_carlo_pools(objective_method)]
    /\ pc' = "de_done"
    /\ UNCHANGED <<call, ret, futures, rng, memo>>

\* self.params = result.x; return result
CalibrateFinish ==
    /\ pc = "de_done"
    /\ LET result == optimize_result(de)
       IN  /\ self' = store_result(self, result)
           /\ ret' = Returned(result)
           /\ memo' = IF memo = NoMemo
                      THEN [op |-> "calibrate", call |-> call, result |-> result,
                            again |-> FALSE]
                      ELSE memo
    /\ pc' = "returned"
    /\ de' = NoDe
    /\ UNCHANGED <<call, futures, rng>>

CalNext ==
    \/ \E n \in 1..MaxN, bounds \in BoundsSet, maxiter \in 1..MaxIter, use_x0 \in BOOLEAN :
            CalibrateBegin(n, bounds, maxiter, use_x0)
    \/ \E i \in Members : DeWorker(i)
    \/ DeGather
    \/ DePolish
    \/ CalibrateFinish
    \/ Return

CalSpec == CalInit /\ [][CalNext]_vars

-----------------------------------------------------------------------------
(* The dashboard (interactive.py): one CausalModel shared by the callbacks. *)
(* The server handles every request in a thread of its own, so the          *)
(* calibration callback and the draw callback can be in progress together;  *)
(* here pc, call and ret hold one entry for each of the two callbacks.      *)

\* the parameter values and the dates the inputs of the page can hold
DashParams == {<<PDen, 1, 1, 1>>, <<1, 0, 3, 0>>}
DashDates == {4, 5}
DashBounds == <<(<<0, PDen>>), (<<0, 1>>), (<<1, 3>>), (<<0, 1>>)>>

\* the window a callback passes to update: interval days back from date,
\* forecast_days beyond it
DashWindow(date, interval, forecast_days) ==
    [NoArgs EXCEPT !.from_date = Passed(date - interval),
                   !.to_date = Passed(date + forecast_days)]

Idle == [calibration |-> "idle", draw_figure |-> "idle"]

DashInit ==
    /\ self = init(<<PDen, 1, 1, 1>>, "Wien", "ICU", DataAgeGroups, 2, 5, 1, 0, 0).m
    /\ pc = Idle
    /\ call = [calibration |-> NoCall, draw_figure |-> NoCall]
    /\ ret = [calibration |-> Returned(None), draw_figure |-> Returned(None)]
    /\ futures = <<>>
    /\ rng = NoRng
    /\ de = NoDe
    /\ memo = NoMemo

\* the optimizer run to its end on instance m
RECURSIVE evolve(_, _, _)
evolve(d, m, n) ==
    IF d.phase = "polish" THEN d
    ELSE evolve(gathered([d EXCEPT !.results = [i \in Members |->
                            LET r == get_mape(m, candidates(d)[i], n)
                            IN  <<"done", r.fun, params(r.m)>>]],
                         m.calibration_seed),
                m, n)

\* a callback is triggered: causal_model.<parameter> = float(<input>), four times
SetParams(callback, value, date) ==
    /\ pc[callback] = "idle"
    /\ self' = set_params(self, value)
    /\ call' = [call EXCEPT ![callback] = [op |-> callback, value |-> value, date |-> date]]
    /\ pc' = [pc EXCEPT ![callback] = "assigned"]
    /\ UNCHANGED <<ret, futures, rng, de, memo>>

\* causal_model.update(state, bed_type, age_groups, from_date, to_date, buffer)
SetWindow(callback) ==
    /\ pc[callback] = "assigned"
    /\ LET u == update(self, DashWindow(call[callback].date, 2,
                                        IF callback = "draw_figure" THEN 1 ELSE 0))
       IN  /\ self' = u.m
           /\ pc' = [pc EXCEPT ![callback] = IF u.ret.ok THEN "updated" ELSE "idle"]
           /\ ret' = [ret EXCEPT ![callback] = u.ret]
           /\ call' = IF u.ret.ok THEN call ELSE [call EXCEPT ![callback] = NoCall]
    /\ UNCHANGED <<futures, rng, de, memo>>

\* causal_model.calibrate(n, bounds, maxiter, use_x0), up to the result of
\* the optimizer
CalibrationRun ==
    /\ pc.calibration = "updated"
    /\ LET d == evolve(solver(DashBounds, 1, self.calibration_seed, Omitted), self, 1)
       IN  call' = [call EXCEPT !.calibration = @ @@ [result |-> optimize_result(d)]]
    /\ pc' = [pc EXCEPT !.calibration = "optimized"]
    /\ UNCHANGED <<self, ret, futures, rng, de, memo>>

\* self.params = result.x, and the callback returns result.x to the page
CalibrationFinish ==
    /\ pc.calibration = "optimized"
    /\ self' = store_result(self, call.calibration.result)
    /\ ret' = [ret EXCEPT !.calibration = Returned(call.calibration.result)]
    /\ call' = [call EXCEPT !.calibration = NoCall]
    /\ pc' = [pc EXCEPT !.calibration = "idle"]
    /\ UNCHANGED <<futures, rng, de, memo>>

\* simulation = causal_model.simulate(n), and the figure is returned
DrawSimulate ==
    /\ pc.draw_figure = "updated"
    /\ ret' = [ret EXCEPT !.draw_figure = Returned(simulate(self, 1).out)]
    /\ call' = [call EXCEPT !.draw_figure = NoCall]
    /\ pc' = [pc EXCEPT !.draw_figure = "idle"]
    /\ UNCHANGED <<self, futures, rng, de, memo>>

DashNext ==
    \/ \E callback \in {"calibration", "draw_figure"}, value \in DashParams, date \in DashDates :
            SetParams(callback, value, date)
    \/ \E callback \in {"calibration", "draw_figure"} : SetWindow(callback)
    \/ CalibrationRun
    \/ CalibrationFinish
    \/ DrawSimulate

DashSpec == DashInit /\ [][DashNext]_vars

-----------------------------------------------------------------------------
(* The benchmarking harness: utils.benchmark driven by the forecast of      *)
(* benchmark_causal_model.py on one CausalModel. call holds the arguments,  *)
(* the position in the list of dates and the locals of forecast, ret the   *)
(* two result maps, memo the result written at the end.                    *)

CALIBRATION_INTERVAL == 2    \* days of the calibration window
N == 1                       \* monte_carlo_iterations
MAX_ITER == 1                \* max_iter
MaxDates == 2                \* longest list of dates

BenchDates == {2, 4, 5}
BenchForecastDays == {2, 3}

\* numpy broadcasting of two one-dimensional arrays
broadcastable(a, b) == Len(a) = Len(b) \/ Len(a) = 1 \/ Len(b) = 1
broadcast_len(a, b) == IF Len(a) = 1 THEN Len(b) ELSE Len(a)
broadcast_to(a, n) == IF Len(a) = n THEN a ELSE [k \in 1..n |-> a[1]]

\* reference - prediction, for broadcastable arrays
subtract(a, b) ==
    LET n == broadcast_len(a, b)
    IN  [k \in 1..n |-> broadcast_to(a, n)[k] - broadcast_to(b, n)[k]]

\* np.mean(np.abs(actual - pred))
mae(actual, pred) ==
    LET d == subtract(actual, pred)
    IN  IF Len(d) = 0 THEN NotANumber
        ELSE Frac(SumSeq([k \in 1..Len(d) |-> Abs(d[k])]), Len(d))

\* np.mean(np.abs(actual - pred)) / (np.abs(np.diff(actual)).sum() / (len(actual) - 1))
mase(actual, pred) ==
    LET d == subtract(actual, pred)
        numerator == SumSeq([k \in 1..Len(d) |-> Abs(d[k])])
        moves == SumSeq([k \in 1..(Len(actual) - 1) |-> Abs(actual[k + 1] - actual[k])])
    IN  IF Len(d) = 0 \/ Len(actual) = 1 THEN NotANumber
        ELSE IF moves = 0 THEN (IF numerator = 0 THEN NotANumber ELSE Inf)
        ELSE Frac(numerator * (Len(actual) - 1), Len(d) * moves)

\* the calibration window of forecast(date, days)
forecast_window(date) ==
    [NoArgs EXCEPT !.from_date = Passed(date - (CALIBRATION_INTERVAL - 1)),
                   !.to_date = Passed(date)]

\* what the body of the try block leaves in successful[date] when the
\* forecast has returned: the entries assigned before the first exception,
\* and the exception if there is one
metrics(prediction, calibration, date, forecast_days, state, bed_type) ==
    LET from_date == date + 1
        to_date == from_date + (forecast_days - 1)
        got == OccupancyData_get_array(from_date, to_date, state, bed_type)
        reference == got.value
        first == ("actual" :> reference) @@ ("prediction" :> prediction)
    IN  IF ~got.ok THEN [assigned |-> FALSE, entry |-> <<>>, raised |-> TRUE, error |-> got.error]
        ELSE IF ~broadcastable(reference, prediction)
        THEN [assigned |-> TRUE, entry |-> first, raised |-> TRUE, error |-> "ValueError"]
        ELSE [assigned |-> TRUE, raised |-> FALSE, error |-> None,
              entry |-> first @@ ("diff" :> subtract(reference, prediction))
                         @@ ("mase" :> mase(reference, prediction))
                         @@ ("mape" :> mape(broadcast_to(reference, broadcast_len(reference, prediction)),
                                            broadcast_to(prediction, broadcast_len(reference, prediction))))
                         @@ ("mae" :> mae(reference, prediction))
                         @@ ("calibration_stats" :> calibration)]

BenchInit ==
    /\ \E buffer \in Buffers :
         self = init(<<PDen, 1, 1, 1>>, "Tirol", "ICU", {"<5"}, 5, 5, buffer, 0, 0).m
    /\ pc = "bench_loop"
    /\ \E dates \in SeqsOver(BenchDates, MaxDates), forecast_days \in BenchForecastDays :
         call = [op |-> "benchmark", dates |-> dates, forecast_days |-> forecast_days,
                 state |-> "Tirol", bed_type |-> "ICU", done |-> 0,
                 result |-> None, prediction |-> None]
    /\ ret = [successful |-> <<>>, failed |-> <<>>]
    /\ futures = <<>>
    /\ rng = NoRng
    /\ de = NoDe
    /\ memo = NoMemo

\* the date the loop is at
bench_date == call.dates[call.done + 1]

\* except Exception as e: failed[date] = str(e), and the loop goes on
bench_failed(error) ==
    /\ ret' = [ret EXCEPT !.failed = (bench_date :> error) @@ @]
    /\ call' = [call EXCEPT !.done = @ + 1, !.result = None, !.prediction = None]
    /\ pc' = "bench_loop"

\* forecast: model.update(from_date=calibration_from, to_date=calibration_to)
ForecastUpdate ==
    /\ pc = "bench_loop"
    /\ call.done < Len(call.dates)
    /\ \E u \in {update(self, forecast_window(bench_date))} :
         /\ self' = u.m
         /\ IF u.ret.ok
            THEN pc' = "bench_updated" /\ UNCHANGED <<call, ret>>
            ELSE bench_failed(u.ret.error)
    /\ UNCHANGED <<futures, rng, de, memo>>

\* forecast: result = model.calibrate(N, BOUNDS, MAX_ITER)
ForecastCalibrate ==
    /\ pc = "bench_updated"
    /\ \E d \in {evolve(solver(DashBounds, MAX_ITER, self.calibration_seed, Omitted), self, N)} :
         \E result \in {optimize_result(d)} :
            /\ self' = store_result(self, result)
            /\ call' = [call EXCEPT !.result = result]
    /\ pc' = "bench_calibrated"
    /\ UNCHANGED <<ret, futures, rng, de, memo>>

\* forecast: pred = model.predict(days, N)
ForecastPredict ==
    /\ pc = "bench_calibrated"
    /\ \E w \in {update(self, ToDate(bench_date + call.forecast_days))} :
         IF ~w.ret.ok
         THEN self' = w.m /\ bench_failed(w.ret.error)
         ELSE \E f \in {predict_finish(w.m, bench_date, call.forecast_days,
                                       monte_carlo_sequential(w.m, N).out)} :
                /\ self' = f.m
                /\ IF f.ret.ok
                   THEN /\ call' = [call EXCEPT !.prediction = f.ret.value]
                        /\ pc' = "bench_predicted"
                        /\ ret' = ret
                   ELSE bench_failed(f.ret.error)
    /\ UNCHANGED <<futures, rng, de, memo>>

\* the rest of the try block, and the except clause when it raises
BenchmarkMetrics ==
    /\ pc = "bench_predicted"
    /\ \E e \in {metrics(call.prediction, [mape |-> call.result.fun], bench_date,
                         call.forecast_days, call.state, call.bed_type)} :
         ret' = [successful |-> IF e.assigned
                                THEN (bench_date :> e.entry) @@ ret.successful
                                ELSE ret.successful,
                 failed |-> IF e.raised
                            THEN (bench_date :> e.error) @@ ret.failed
                            ELSE ret.failed]
    /\ call' = [call EXCEPT !.done = @ + 1, !.result = None, !.prediction = None]
    /\ pc' = "bench_loop"
    /\ UNCHANGED <<self, futures, rng, de, memo>>

\* the loop is over: result is built and written to path
BenchmarkWrite ==
    /\ pc = "bench_loop"
    /\ call.done = Len(call.dates)
    /\ pc' = "bench_written"
    /\ memo' = [op |-> "benchmark", again |-> FALSE,
                result |-> [forecast_days |-> call.forecast_days, state |-> call.state,
                            bed_type |-> call.bed_type,
                            successful_forecasts |-> ret.successful,
                            failed_forecasts |-> ret.failed, dates |-> call.dates]]
    /\ UNCHANGED <<self, call, ret, futures, rng, de>>

BenchNext ==
    \/ ForecastUpdate
    \/ ForecastCalibrate
    \/ ForecastPredict
    \/ BenchmarkMetrics
    \/ BenchmarkWrite

BenchSpec == BenchInit /\ [][BenchNext]_vars

-----------------------------------------------------------------------------
(* Claims on the simulation engine, under SimSpec *)

Completed(op) == pc \in {"idle", "returned"} /\ call.op = op
AllZero(s) == \A k \in 1..Len(s) : s[k] = 0

\* C1: monte_carlo(1, mode) returns exactly the series simulate(worker_id=0)
\* returns, in mode 'sequential' and in mode 'parallel'.
C1_MonteCarloOfOne ==
    (Completed("monte_carlo") /\ call.n = 1)
        => ret = Returned(simulate(call.pre, 0).out)

C1_Witness ==
    /\ Completed("monte_carlo") /\ call.n = 1 /\ call.method = "parallel"
    /\ ret.ok /\ ~AllZero(ret.value)
    /\ simulate(call.pre, 0).out /= simulate(call.pre, 1).out

\* C3: the output of simulate and of monte_carlo has as many entries as the
\* buffered case series has, less the buffer, for 0 <= buffer <= length.
C3_BufferTrimming ==
    ((Completed("simulate") \/ Completed("monte_carlo"))
        /\ call.pre._buffer >= 0 /\ call.pre._buffer <= Len(call.pre.cases))
        => (ret.ok /\ Len(ret.value) = Len(call.pre.cases) - call.pre._buffer)

C3_Witness ==
    /\ Completed("monte_carlo") /\ call.method = "parallel" /\ call.n = MaxN
    /\ call.pre._buffer = 2 /\ Len(call.pre.cases) = MaxLen
    /\ Len(ret.value) = MaxLen - 2

\* C4: with hospitalization_p = 0, or with every case count 0, simulate
\* returns zeros only, for every worker id and all other parameters.
C4_ZeroAdmission ==
    (Completed("simulate")
        /\ (call.pre.hospitalization_p = 0 \/ AllZero(call.pre.cases)))
        => (ret.ok /\ AllZero(ret.value))

C4_Witness ==
    /\ Completed("simulate") /\ call.worker_id = 1
    /\ call.pre.hospitalization_p = 0 /\ ~AllZero(call.pre.cases)
    /\ call.pre._buffer = 0 /\ Len(ret.value) = MaxLen

\* the draws replica worker_id of instance m gets: all delays 0, all stays 3
DegenerateDraws(m, worker_id) ==
    LET size == SumSeq(hospitalizations(m))
        d == poisson(default_rng(worker_id, m.simulation_seed), m.poisson_lambda, size)
        s == truncnorm_rvs_round(d.rng, m.truncnorm_loc, m.truncnorm_scale, size)
    IN  \A i \in 1..size : d.draws[i] = 0 /\ s.draws[i] = 3

Scenario(m) ==
    m.cases = ScenarioCases /\ m._buffer = 0 /\ m.hospitalization_p = PDen

\* C5: cases [10,0,0,0,0,0,0], buffer 0, p = 1, all delays 0 and all stays 3:
\* simulate returns [10,10,10,10,0,0,0], and so does monte_carlo(n), n >= 1.
C5_ConcreteScenario ==
    /\ (Completed("simulate") /\ Scenario(call.pre)
            /\ DegenerateDraws(call.pre, call.worker_id))
        => ret = Returned(<<10, 10, 10, 10, 0, 0, 0>>)
    /\ (Completed("monte_carlo") /\ Scenario(call.pre)
            /\ \A w \in 0..(call.n - 1) : DegenerateDraws(call.pre, w))
        => ret = Returned(<<10, 10, 10, 10, 0, 0, 0>>)

C5_Witness ==
    /\ Completed("monte_carlo") /\ Scenario(call.pre) /\ call.n = MaxN
    /\ \A w \in 0..(call.n - 1) : DegenerateDraws(call.pre, w)
    /\ ret = Returned(<<10, 10, 10, 10, 0, 0, 0>>)

\* the inputs of simulate: parameters, case series, buffer, worker id, seed
SameSimulateInputs(a, b) ==
    /\ params(a.pre) = params(b.pre)
    /\ a.pre.cases = b.pre.cases
    /\ a.pre._buffer = b.pre._buffer
    /\ a.pre.simulation_seed = b.pre.simulation_seed
    /\ a.worker_id = b.worker_id

Admissions(m) ==
    LET h == hospitalizations(m)
    IN  {<<t, a>> \in (0..(Len(h) - 1)) \X (1..SumSeq(h)) :
            /\ SumSeq(SubSeq(h, 1, t)) < a
            /\ a <= SumSeq(SubSeq(h, 1, t + 1))}

\* the delays and the stays simulate(worker_id) draws on instance m
DrawsOf(m, worker_id) ==
    LET total == SumSeq(hospitalizations(m))
        d == poisson(default_rng(worker_id, m.simulation_seed), m.poisson_lambda, total)
        s == truncnorm_rvs_round(d.rng, m.truncnorm_loc, m.truncnorm_scale, total)
    IN  [delays |-> d.draws, stays |-> s.draws]

\* admission <<t, a>> occupies a bed on day number day of the buffered series
Covers(adm, draws, day) ==
    /\ adm[1] + draws.delays[adm[2]] <= day
    /\ day < adm[1] + draws.delays[adm[2]] + draws.stays[adm[2]] + 1

\* the reference occupancy: entry k (from 0) counts the admissions that
\* occupy a bed on day buffer + k
ReferenceOccupancy(m, worker_id) ==
    LET draws == DrawsOf(m, worker_id)
    IN  [k \in 1..(Len(m.cases) - m._buffer) |->
            Cardinality({adm \in Admissions(m) : Covers(adm, draws, m._buffer + k - 1)})]

\* C16: simulate computes the reference occupancy: with floor(cases[t] * p)
\* admissions on each day t of the buffered series and a (delay, stay) pair
\* per admission, output entry k is the number of admissions with
\* t + d <= buffer + k < t + d + s + 1; admissions of buffer days count on
\* the reported days they cover, and an interval that runs past the end of
\* the series is counted on its in-series days and causes no error.
C16_ReferenceOccupancy ==
    Completed("simulate") =>
        /\ ret.ok
        /\ ret.value = ReferenceOccupancy(call.pre, call.worker_id)

\* an admission of a buffer day that covers a reported day, and an admission
\* whose interval runs past the end of the series
C16_Witness ==
    /\ Completed("simulate")
    /\ LET m == call.pre
           draws == DrawsOf(m, call.worker_id)
       IN  /\ \E adm \in Admissions(m) :
                /\ adm[1] < m._buffer
                /\ \E day \in m._buffer..(Len(m.cases) - 1) : Covers(adm, draws, day)
           /\ \E adm \in Admissions(m) :
                /\ Covers(adm, draws, Len(m.cases))
                /\ Covers(adm, draws, Len(m.cases) - 1)
           /\ \E k \in 1..Len(ret.value) : ret.value[k] >= 2

\* the integer nearest to total / n, the even one of the two when total / n
\* lies exactly half way between them
NearestEven(total, n) ==
    CHOOSE z \in 0..total :
        /\ 2 * Abs(n * z - total) <= n
        /\ 2 * Abs(n * z - total) = n => z % 2 = 0

\* the value of day k (from 1) summed over the replicas with ids 0..n-1
ReplicaTotal(m, n, k) ==
    SumSeq([i \in 1..n |-> simulate(m, i - 1).out[k]])

\* C20: monte_carlo(n, mode) runs exactly the n replicas with worker ids
\* 0..n-1 under the one simulation seed and returns, for each day, the
\* arithmetic mean of the n replica values rounded to the nearest integer,
\* an exact half going to the even integer.
C20_MeanRoundedHalfEven ==
    /\ pc = "mc_wait" => Len(futures) = call.n
    /\ Completed("monte_carlo") =>
        /\ ret.ok
        /\ Len(ret.value) = Len(call.pre.cases) - call.pre._buffer
        /\ \A k \in 1..Len(ret.value) :
                ret.value[k] = NearestEven(ReplicaTotal(call.pre, call.n, k), call.n)

\* a parallel run of two replicas with a day whose mean is an exact half
\* that goes down to the even integer
C20_Witness ==
    /\ Completed("monte_carlo") /\ call.method = "parallel" /\ call.n = 2
    /\ simulate(call.pre, 0).out /= simulate(call.pre, 1).out
    /\ \E k \in 1..Len(ret.value) :
            /\ ReplicaTotal(call.pre, 2, k) % 4 = 1
            /\ 2 * ret.value[k] < ReplicaTotal(call.pre, 2, k)

\* the occupancy the reads build, read number j on
RECURSIVE Replay(_, _, _, _)
Replay(occupancy, reads, j, draws) ==
    IF j > Len(reads) THEN occupancy
    ELSE LET begin_stay == reads[j][1] + draws.delays[reads[j][2] + 1]
             end_stay == begin_stay + draws.stays[reads[j][2] + 1] + 1
         IN  Replay(AddStay(occupancy, begin_stay, end_stay), reads, j + 1, draws)

\* C21: for a case series of non-negative counts simulate draws exactly A
\* delays and A stays in one batch, A being the admissions of the whole
\* buffered series, and admission number k in day-major order reads delay k
\* and stay k: every drawn pair is read by exactly one admission and no
\* index past the batch is read.
C21_BatchDraws ==
    Completed("simulate") =>
        LET m == call.pre
            h == hospitalizations(m)
            A == SumSeq(h)
            draws == DrawsOf(m, call.worker_id)
            reads == DayReads(0, h, 0)
        IN  /\ Len(draws.delays) = A /\ Len(draws.stays) = A
            /\ Len(reads) = A
            /\ \A k \in 1..A : reads[k][2] = k - 1
            /\ \A k \in 1..A : <<reads[k][1], k>> \in Admissions(m)
            /\ ret.value = DropBuffer(Replay([k \in 1..Len(m.cases) |-> 0], reads, 1, draws),
                                      m._buffer)

\* admissions on two days, the later day's reads placed after the earlier
\* day's, with draws that differ inside the batch
C21_Witness ==
    /\ Completed("simulate")
    /\ LET m == call.pre
           h == hospitalizations(m)
           draws == DrawsOf(m, call.worker_id)
       IN  /\ \E t1, t2 \in 1..Len(h) : t1 < t2 /\ h[t1] > 0 /\ h[t2] > 0
           /\ \E i, j \in 1..SumSeq(h) :
                draws.delays[i] /= draws.delays[j] /\ draws.stays[i] /= draws.stays[j]
           /\ ~AllZero(ret.value)

\* C22: simulate and monte_carlo are read-only on the model: after either
\* call, in either execution mode, the parameter vector, the seeds, the
\* window fields and the cached case and occupancy arrays are those of
\* before the call, and no replica's result depends on another replica
\* having run.
C22_ReadOnly ==
    /\ call.op \in {"simulate", "monte_carlo"} => self = call.pre
    /\ pc = "mc_wait" =>
            \A i \in DOMAIN futures :
                futures[i] /= Pending => futures[i][2] = ReferenceOccupancy(call.pre, i - 1)
    /\ Completed("monte_carlo") =>
            ret.value = mean_around([i \in 1..call.n |-> ReferenceOccupancy(call.pre, i - 1)])

\* a sequential run of two replicas that draw from their streams and differ
C22_Witness ==
    /\ Completed("monte_carlo") /\ call.method = "sequential" /\ call.n = 2
    /\ self = call.pre
    /\ SumSeq(hospitalizations(self)) > 0 /\ self.poisson_lambda > 0
    /\ simulate(self, 0).out /= simulate(self, 1).out
    /\ ~AllZero(ret.value)

\* C23: in mode 'parallel' monte_carlo submits all n replicas before it
\* waits on any of them, no replica waits on another replica, and the mean
\* is taken only after every one of the n replicas has delivered its result.
C23_SubmitAllJoinOnce ==
    [][/\ pc = "mc_wait" =>
            /\ Len(futures) = call.n
            /\ \A i \in DOMAIN futures : futures[i] = Pending => runnable(i)
       /\ pc = "mc_wait" /\ pc' = "idle" =>
            /\ \A i \in 1..call.n : futures[i] /= Pending
            /\ ret' = Returned(mean_around([i \in 1..call.n |-> futures[i][2]]))]_vars

\* the second replica has delivered while the first is still pending
C23_Witness ==
    /\ pc = "mc_wait" /\ call.n = 2
    /\ futures[1] = Pending
    /\ futures[2] /= Pending
    /\ ~AllZero(futures[2][2])

\* instance m with its case series cut after its first len days
Shortened(m, len) == [m EXCEPT !.cases = SubSeq(@, 1, len)]

\* C24: extending the window forward does not change the simulated past: for
\* fixed parameters, worker id, seed and buffer, simulate over a case series
\* with extra trailing days returns, on the days of the original window, the
\* occupancy simulate returns over the original series.
C24_PastUnchanged ==
    Completed("simulate") =>
        \A len \in call.pre._buffer..Len(call.pre.cases) :
            simulate(Shortened(call.pre, len), call.worker_id).out
                = SubSeq(ret.value, 1, len - call.pre._buffer)

\* C28: for every replica count n >= 1 and every model state,
\* monte_carlo(n, 'parallel') and monte_carlo(n, 'sequential') return the
\* same series, whatever order the worker processes finish in.
C28_ParallelEqualsSequential ==
    Completed("monte_carlo") =>
        ret = Returned(monte_carlo_sequential(call.pre, call.n).out)

\* a parallel run of two replicas that differ, with a result that is not
\* the series of either replica
C28_Witness ==
    /\ Completed("monte_carlo") /\ call.method = "parallel" /\ call.n = 2
    /\ ret.value /= simulate(call.pre, 0).out
    /\ ret.value /= simulate(call.pre, 1).out
    /\ ret.value = monte_carlo_sequential(call.pre, 2).out

-----------------------------------------------------------------------------
(* Claims on update and predict, under Spec *)

\* C2: predict(days, n, mode) returns exactly days entries, for every horizon,
\* replica count and mode.
C2_ForecastLength ==
    (Completed("predict") /\ ret.ok) => Len(ret.value) = call.days

\* C10: update changes exactly the window fields passed, every omitted field
\* keeps its value, the parameter vector and the seeds are unchanged, and a
\* call that returns leaves the case and occupancy arrays of the resulting
\* window in the caches.
C10_UpdateFrame ==
    Completed("update") =>
        /\ self._state = Given(call.args.state, call.pre._state)
        /\ self._bed_type = Given(call.args.bed_type, call.pre._bed_type)
        /\ self._age_groups = Given(call.args.age_groups, call.pre._age_groups)
        /\ self._from_date = Given(call.args.from_date, call.pre._from_date)
        /\ self._to_date = Given(call.args.to_date, call.pre._to_date)
        /\ self._buffer = Given(call.args.buffer, call.pre._buffer)
        /\ params(self) = params(call.pre)
        /\ self.simulation_seed = call.pre.simulation_seed
        /\ self.calibration_seed = call.pre.calibration_seed
        /\ ret.ok =>
            /\ self.occupancy =
                    [k \in 1..Cardinality({d \in DataDates :
                                    self._from_date <= d /\ d <= self._to_date}) |->
                        IF self._bed_type = "ICU"
                        THEN IntensivBettenBelCovid19(self._state, self._from_date + k - 1)
                        ELSE NormalBettenBelCovid19(self._state, self._from_date + k - 1)]
            /\ self.cases =
                    [k \in 1..Cardinality({d \in DataDates :
                                    self._from_date - self._buffer <= d
                                        /\ d <= self._to_date}) |->
                        AnzahlDiff(self._state, self._age_groups,
                                   self._from_date - self._buffer + k - 1)]

C10_Witness ==
    /\ Completed("update") /\ ret.ok
    /\ call.args.buffer /= Omitted /\ call.args.state /= Omitted
    /\ self._buffer /= call.pre._buffer /\ self._state /= call.pre._state
    /\ self._to_date = call.pre._to_date
    /\ self.cases /= call.pre.cases /\ self.occupancy /= call.pre.occupancy
    /\ Len(self.cases) = Len(self.occupancy) + self._buffer

\* the occupancy rows of the window of m, as the data set holds them
WindowOccupancy(m) ==
    [k \in 1..Cardinality({d \in DataDates : m._from_date <= d /\ d <= m._to_date}) |->
        IF m._bed_type = "ICU"
        THEN IntensivBettenBelCovid19(m._state, m._from_date + k - 1)
        ELSE NormalBettenBelCovid19(m._state, m._from_date + k - 1)]

\* the daily new cases of the window of m, buffer days included
WindowCases(m) ==
    [k \in 1..Cardinality({d \in DataDates :
                            m._from_date - m._buffer <= d /\ d <= m._to_date}) |->
        AnzahlDiff(m._state, m._age_groups, m._from_date - m._buffer + k - 1)]

SameWindow(a, b) ==
    /\ a._state = b._state /\ a._bed_type = b._bed_type
    /\ a._age_groups = b._age_groups /\ a._from_date = b._from_date
    /\ a._to_date = b._to_date /\ a._buffer = b._buffer

\* C11: after predict completes, the to date and every other window field
\* equal their values before the call, the cached case and occupancy arrays
\* are again those of the original window, and the parameter vector is
\* unchanged.
C11_PredictRestoresWindow ==
    (Completed("predict") /\ ret.ok) =>
        /\ SameWindow(self, call.pre)
        /\ self.occupancy = WindowOccupancy(call.pre)
        /\ self.cases = WindowCases(call.pre)
        /\ params(self) = params(call.pre)

\* a parallel forecast over days the data hold, the window extended meanwhile
C11_Witness ==
    /\ Completed("predict") /\ ret.ok
    /\ call.method = "parallel" /\ call.n = MaxN
    /\ call.pre._to_date + call.days <= DataMaxDate
    /\ Len(ret.value) = call.days
    /\ Len(self.cases) = Len(call.pre.cases)

\* the window of m reaches outside the days the data sets hold
OutsideData(m) == m._from_date - m._buffer < 0 \/ m._to_date > DataMaxDate

\* C12: a window that reaches outside the date range of the data, requested
\* through update or through the forward extension made by predict, makes
\* the call fail with an error; no call returns having worked on a silently
\* shortened case or occupancy series.
C12_WindowFailFast ==
    /\ (Completed("update") /\ OutsideData(self)) => ~ret.ok
    /\ (Completed("predict") /\ call.pre._to_date + call.days > DataMaxDate) => ~ret.ok

\* C25: after any sequence of constructor, update and predict calls, those
\* that end in an error included, the cached case and occupancy arrays are
\* exactly those the data providers return for the model's current region,
\* bed type, categories, from date, to date and buffer.
C25_CachesMatchWindow ==
    pc \in {"idle", "returned"} =>
        /\ occupancy_of(self) = Returned(self.occupancy)
        /\ cases_of(self) = Returned(self.cases)

\* C26: if predict fails after it has extended the window (monte_carlo
\* raises ValueError for an execution mode that is neither 'parallel' nor
\* 'sequential'), the to date and the cached arrays of the model are those
\* of the original window, as before the call.
C26_FailedPredictRestores ==
    pc = "returned" /\ call.op = "predict" /\ ~ret.ok =>
        /\ self._to_date = call.pre._to_date
        /\ self.occupancy = call.pre.occupancy
        /\ self.cases = call.pre.cases

\* the series predict simulates: that of the window extended by days
ExtendedSimulation(m, days, n) ==
    monte_carlo_sequential(update(m, ToDate(m._to_date + days)).m, n).out

\* C29: entry k (k = 1..days) of the series predict returns is the simulated
\* occupancy of calendar day to_date + k of the window in force when predict
\* was called, so that it lines up entry by entry with the reference range
\* [date + 1, date + forecast_days] a forecast is compared against.
C29_ForecastDays ==
    (Completed("predict") /\ ret.ok) =>
        LET m == call.pre
            simulation == ExtendedSimulation(m, call.days, call.n)
        IN  \A k \in 1..call.days :
                LET j == m._to_date + k - m._from_date + 1   \* day to_date + k
                IN  /\ k \in DOMAIN ret.value
                    /\ j \in DOMAIN simulation
                    /\ ret.value[k] = simulation[j]

-----------------------------------------------------------------------------
(* Claims on the configuration, under CfgSpec *)

UnknownConfig(state, bed_type) ==
    state \notin DataStates \/ bed_type \notin {"ICU", "normal"}

\* C13: a constructor or update call that configures an unknown bed type or
\* an unknown region raises an error in that call; it does not return with
\* an empty or stale case or occupancy series.
C13_UnknownConfigRaises ==
    /\ (Completed("update") /\ UnknownConfig(self._state, self._bed_type)) => ~ret.ok
    /\ (Completed("init") /\ UnknownConfig(call.state, call.bed_type)) => ~ret.ok

-----------------------------------------------------------------------------
(* Claims on calibrate, under CalSpec *)

\* calibrate has returned its result and the caller has not yet taken it
Calibrated == pc = "returned" /\ call.op = "calibrate" /\ ret.ok

\* C7: after any calibrate call that completes, every component of the
\* returned best parameter vector lies within the bounds passed, inclusive,
\* and so does the live parameter vector the call leaves in the model.
C7_BoundsRespect ==
    Calibrated =>
        /\ InBounds(ret.value.x, call.bounds)
        /\ InBounds(params(self), call.bounds)

\* a completed call that started from live parameters outside the bounds
C7_Witness ==
    /\ Calibrated
    /\ ~InBounds(params(call.pre), call.bounds)
    /\ ret.value.nit >= 1

\* the second of two calibrate runs has returned
SecondRun == Calibrated /\ memo.op = "calibrate" /\ memo.again

\* the two runs work on the same series, bounds, maxiter and calibration
\* seed, and are called with the same n and use_x0
SameCalibrateInputs(a, b) ==
    /\ a.pre.cases = b.pre.cases
    /\ a.pre.occupancy = b.pre.occupancy
    /\ a.pre._buffer = b.pre._buffer
    /\ a.bounds = b.bounds
    /\ a.maxiter = b.maxiter
    /\ a.pre.calibration_seed = b.pre.calibration_seed
    /\ a.pre.simulation_seed = b.pre.simulation_seed
    /\ a.n = b.n
    /\ a.use_x0 = b.use_x0

\* the same vector and the same value; a nan is identical to a nan
SameResult(r1, r2) == r1.x = r2.x /\ r1.fun = r2.fun

\* C8: two calibrate runs with identical case series, occupancy series,
\* bounds, maxiter and calibration seed, called with the same n and the same
\* use_x0, return the same best parameter vector and the same objective
\* value, however the evaluations of the population interleave, and whatever
\* live parameters the model held at the start of each run provided use_x0
\* is false; with use_x0 true, provided the live parameters were the same.
C8_CalibrateDeterministic ==
    (/\ SecondRun
     /\ SameCalibrateInputs(memo.call, call)
     /\ (call.use_x0 => params(memo.call.pre) = params(call.pre)))
        => SameResult(memo.result, ret.value)

\* two runs on the same inputs without x0, from different live parameters
C8_Witness ==
    /\ SecondRun
    /\ SameCalibrateInputs(memo.call, call)
    /\ ~call.use_x0
    /\ params(memo.call.pre) /= params(call.pre)
    /\ ret.value.fun.kind = "num"

\* C8 as stated: the two runs return the same best parameter vector and
\* objective value regardless of the live parameters at the start of each.
C8_RegardlessOfLiveParams ==
    (SecondRun /\ SameCalibrateInputs(memo.call, call))
        => SameResult(memo.result, ret.value)

\* C9: when calibrate completes, the live parameter vector of the model
\* (hospitalization_p, poisson_lambda, truncnorm_loc, truncnorm_scale)
\* equals the best parameter vector of the result it returns.
C9_LiveEqualsBest ==
    Calibrated => params(self) = ret.value.x

\* a completed call whose best vector is not the one the model started with
C9_Witness ==
    /\ Calibrated
    /\ params(call.pre) /= ret.value.x
    /\ params(self) = ret.value.x
    /\ ret.value.x[3] /= ret.value.x[4]

\* C14: when the reference occupancy of the calibration window has a day of
\* value 0, the objective still evaluates to a defined finite value: no
\* infinite or not-a-number error is handed to the optimizer by an
\* evaluation, and none is returned as the objective value.
C14_ObjectiveDefined ==
    /\ pc = "de_wait" =>
            \A i \in Members :
                de.results[i] /= Pending => de.results[i][2].kind = "num"
    /\ Calibrated => ret.value.fun.kind = "num"

\* the error of parameter vector x on the series of instance m, n replicas
ObjectiveOf(m, x, n) ==
    mape(m.occupancy, monte_carlo_sequential(set_params(m, x), n).out)

\* C15: a calibrate run that reaches maxiter without meeting the convergence
\* tolerance ends normally: it raises no error (calibrate raises only for an
\* x0 outside the bounds, before the run starts), it returns the best member
\* of the population together with its objective value, and that member is
\* written into the live parameters.
C15_MaxiterEndsNormally ==
    /\ (pc = "returned" /\ call.op = "calibrate" /\ ~ret.ok) =>
            (call.use_x0 /\ ~InBounds(params(call.pre), call.bounds))
    /\ (pc = "de_done" /\ ~de.success) =>
            \A i \in Members : ~Less(de.energies[i], optimize_result(de).fun)
    /\ (Calibrated /\ ~ret.value.success) =>
            /\ ret.value.nit = call.maxiter
            /\ ret.value.fun = ObjectiveOf(call.pre, ret.value.x, call.n)
            /\ params(self) = ret.value.x

\* a run of MaxIter generations that has not converged and found a vector
\* other than the one the model held
C15_Witness ==
    /\ Calibrated /\ ~ret.value.success
    /\ call.maxiter = MaxIter /\ ret.value.nit = MaxIter
    /\ ret.value.fun.kind = "num"
    /\ params(call.pre) /= ret.value.x

\* C17: during a calibrate call the live parameter vector is written only
\* once, at the end of the call: until then the model holds the vector it
\* held when the call started; and evaluating the objective for a candidate
\* does not write the parameter vector of the instance it runs on, so every
\* copy a pool process has evaluated on still holds that vector too.
C17_LiveParamsWrittenOnce ==
    /\ pc \in {"de_wait", "de_polish", "de_done"} => params(self) = params(call.pre)
    /\ pc = "de_wait" =>
            \A i \in Members :
                de.results[i] /= Pending => de.results[i][3] = params(call.pre)

\* C19: nested parallelism never occurs: every objective evaluation that
\* calibrate issues runs its replicas on the sequential path, so while the
\* pool that evaluates the population is active no evaluation has created a
\* worker pool of its own.
C19_NoNestedPools ==
    pc \in {"de_wait", "de_polish", "de_done"} => de.nested = 0

\* the optimizer has evaluated its population over MaxIter generations and
\* polished the best member
C19_Witness ==
    /\ pc = "de_done" /\ de.nit = MaxIter /\ call.n = MaxN
    /\ de.nested = 0

\* C30: when calibrate is called with use_x0 true and live parameters inside
\* the bounds, the live parameters are a member of the initial population
\* and the best objective value never increases from one generation to the
\* next, so the objective value returned is less than or equal to the
\* objective of the parameters the model held at the start of the call.
C30_NeverWorseThanX0 ==
    [][(call.op = "calibrate" /\ call.use_x0 /\ InBounds(params(call.pre), call.bounds)) =>
        /\ (pc = "de_wait" /\ de.nit = 0) =>
                \E i \in Members : de.population[i] = params(call.pre)
        /\ (pc = "de_wait" /\ de.nit >= 1 /\ pc' \in {"de_wait", "de_polish"}) =>
                LessEq(de'.energies[1], de.energies[1])
        /\ (pc = "de_polish" /\ pc' = "de_done") =>
                LessEq(de'.energies[1], de.energies[1])
        /\ Calibrated =>
                LessEq(ret.value.fun, ObjectiveOf(call.pre, params(call.pre), call.n))]_vars

-----------------------------------------------------------------------------
(* Claims on the benchmarking harness, under BenchSpec *)

AllMetrics == {"actual", "prediction", "diff", "mase", "mape", "mae", "calibration_stats"}

\* C27: in the benchmarking harness every date of the input list ends in
\* exactly one of the two result maps: in successful_forecasts with all of
\* its metrics, or in failed_forecasts with its error message, never in both
\* and never in neither; a failure on one date does not stop the dates
\* after it from being processed.
C27_ExactlyOneMap ==
    /\ pc = "bench_loop" =>
            \A k \in 1..call.done :
                LET date == call.dates[k]
                IN  /\ (date \in DOMAIN ret.successful) /= (date \in DOMAIN ret.failed)
                    /\ date \in DOMAIN ret.successful =>
                            DOMAIN ret.successful[date] = AllMetrics
    /\ pc = "bench_written" =>
            /\ call.done = Len(call.dates)
            /\ \A k \in 1..Len(call.dates) :
                LET date == call.dates[k]
                    result == memo.result
                IN  /\ (date \in DOMAIN result.successful_forecasts)
                            /= (date \in DOMAIN result.failed_forecasts)
                    /\ date \in DOMAIN result.successful_forecasts =>
                            DOMAIN result.successful_forecasts[date] = AllMetrics

-----------------------------------------------------------------------------
(* Claims on the dashboard, under DashSpec *)

\* the instance holds the parameters and the window the callback has written
HoldsOwnInputs(callback) ==
    /\ params(self) = call[callback].value
    /\ self._from_date = call[callback].date - 2
    /\ self._to_date = call[callback].date + (IF callback = "draw_figure" THEN 1 ELSE 0)

\* C18: the calibration callback and the draw callback never interleave on
\* the shared model: when a callback runs the model, the model holds the
\* parameters and the window that callback wrote, and when the calibration
\* callback writes its result, the window is still the one it calibrated on.
C18_CallbacksSerialized ==
    /\ pc.draw_figure = "updated" => HoldsOwnInputs("draw_figure")
    /\ pc.calibration = "updated" => HoldsOwnInputs("calibration")
    /\ pc.calibration = "optimized" =>
            /\ self._from_date = call.calibration.date - 2
            /\ self._to_date = call.calibration.date

====
